---- MODULE Spec2Model ----
(***************************************************************************)
(* Relay route handlers of offlinetube: six Next.js handlers that forward  *)
(* an inbound request to the backend at BACKEND_URL and translate the      *)
(* backend's answer.                                                       *)
(*                                                                         *)
(* Strings that take part in URL building are sequences of tokens: one     *)
(* token per character of a parameter value, one token per percent-encoded *)
(* triplet ("%26"), one token per literal piece of a template string.      *)
(* An optional value (null in the code) is a sequence of length <= 1:      *)
(* None is null, Some(x) is the value x.                                   *)
(***************************************************************************)
EXTENDS Integers, Sequences, FiniteSets, TLC

\* Longest inbound parameter value, in characters.
MaxLen == 2

None == <<>>
Some(x) == <<x>>
IsSome(o) == o /= <<>>
Get(o) == o[1]

\* Characters an inbound parameter value is made of: an unreserved one and
\* two that are URL syntax.
Chars == {"t", "&", "/"}

RECURSIVE StrsOfLen(_)
StrsOfLen(n) ==
  IF n = 0 THEN {<<>>}
  ELSE {Append(s, c) : s \in StrsOfLen(n - 1), c \in Chars}

Strs == UNION {StrsOfLen(n) : n \in 0..MaxLen}
NonEmptyStrs == Strs \ {<<>>}

\* JavaScript truthiness of a string-or-null: `!v` is true for null and ''.
\* `v === null`: the test that lets '' through.
IsNullOnly(v) == v = None
Falsy(v) == v = None \/ Get(v) = <<>>

\* encodeURIComponent on one character: unreserved characters stay, every
\* other one becomes its %XX triplet.
Unreserved == {"t", "0", "2", "5", "-", "_", ".", "!", "~", "*", "'", "(", ")"}
PercentCode(c) ==
  CASE c = "&" -> "%26"
    [] c = "/" -> "%2F"
    [] c = "=" -> "%3D"
    [] c = "?" -> "%3F"
    [] c = "#" -> "%23"
    [] c = "%" -> "%25"
    [] c = " " -> "%20"
    [] OTHER -> c

encodeURIComponent(s) ==
  [i \in 1..Len(s) |-> IF s[i] \in Unreserved THEN s[i] ELSE PercentCode(s[i])]

BACKEND_URL == <<"http://localhost:8001">>

(***************************************************************************)
(* JSON.  A document (the text the backend sent) is a value                *)
(*   [t |-> "null" | "num" | "str" | "obj", s |-> literal, m |-> members]  *)
(* where members is the sequence of the object's members as written, each  *)
(* [k |-> name, v |-> [t, s]].  A number is kept as its literal text.      *)
(***************************************************************************)
JNull == [t |-> "null", s |-> "", m |-> <<>>]
JNum(lit) == [t |-> "num", s |-> lit, m |-> <<>>]
JStr(str) == [t |-> "str", s |-> str, m |-> <<>>]
JObj(members) == [t |-> "obj", s |-> "", m |-> members]
Member(k, v) == [k |-> k, v |-> [t |-> v.t, s |-> v.s]]

\* The decimal text of the IEEE double nearest to a number literal: the
\* integers up to 2^53 are exact, 2^53 + 1 rounds to 2^53.
ToDouble(lit) ==
  CASE lit = "9007199254740993" -> "9007199254740992"
    [] OTHER -> lit

ParseScalar(v) == IF v.t = "num" THEN [v EXCEPT !.s = ToDouble(@)] ELSE v

HasKey(members, k) == \E i \in 1..Len(members) : members[i].k = k
IndexOfKey(members, k) == CHOOSE i \in 1..Len(members) : members[i].k = k

\* obj[k] = v: a new property goes last, an existing one keeps its place.
SetProperty(members, k, v) ==
  IF HasKey(members, k)
  THEN [members EXCEPT ![IndexOfKey(members, k)].v = v]
  ELSE Append(members, [k |-> k, v |-> v])

RECURSIVE ParseMembers(_, _)
ParseMembers(text, obj) ==
  IF text = <<>> THEN obj
  ELSE ParseMembers(Tail(text),
                    SetProperty(obj, Head(text).k, ParseScalar(Head(text).v)))

\* JSON.parse of a document, as response.json() applies it.
JSONparse(doc) ==
  IF doc.t = "obj" THEN JObj(ParseMembers(doc.m, <<>>))
  ELSE [t |-> doc.t, s |-> ParseScalar(doc).s, m |-> <<>>]

\* JSON.stringify of a parsed value: the members in property order, every
\* number as the shortest decimal text of its double.
JSONstringify(value) == value

\* A backend body: the bytes on the wire (raw names them) and, when they are
\* a JSON text, the document they spell.
Body(raw, doc) == [raw |-> raw, doc |-> doc]
IsJsonText(body) == IsSome(body.doc)

\* value.detail: undefined (None) on a primitive or when the property is
\* missing.  On null the access throws; DetailThrows says so.
DetailThrows(value) == value.t = "null"
Detail(value) ==
  IF value.t = "obj" /\ HasKey(value.m, "detail")
  THEN Some(value.m[IndexOfKey(value.m, "detail")].v)
  ELSE None

\* Truthiness of an optional scalar, for `x || fallback`.
Truthy(o) ==
  /\ IsSome(o)
  /\ Get(o).t /= "null"
  /\ ~(Get(o).t = "str" /\ Get(o).s = "")
  /\ ~(Get(o).t = "num" /\ Get(o).s = "0")

(***************************************************************************)
(* Responses.                                                              *)
(***************************************************************************)
ErrorBody(v) == JObj(<<Member("error", v)>>)

\* response.ok
Ok(status) == status >= 200 /\ status <= 299

\* The Response constructor refuses a body with a null-body status and any
\* status outside 200..599.
NullBodyStatus == {101, 204, 205, 304}
ResponseInitThrows(status) ==
  status \in NullBodyStatus \/ status < 200 \/ status > 599

\* NextResponse.json(body, { status }): the body re-encoded.
NextResponseJson(value, status) ==
  [status |-> status,
   contentType |-> Some(<<"application/json">>),
   contentLength |-> None,
   acceptRanges |-> None,
   json |-> Some(JSONstringify(value)),
   stream |-> None]

\* new Response(response.body, { status, headers })
StreamResponse(raw, status, contentType, contentLength, acceptRanges) ==
  [status |-> status,
   contentType |-> contentType,
   contentLength |-> contentLength,
   acceptRanges |-> acceptRanges,
   json |-> None,
   stream |-> Some(raw)]

(***************************************************************************)
(* One handler invocation.                                                 *)
(*   pc      where the async function stands                               *)
(*   req     the inbound request: endpoint and parameters                  *)
(*   calls   the outbound calls made so far, in order                      *)
(*   res     what fetch settled with, once it has                          *)
(*   out     the responses returned to the platform, in order              *)
(*   log     the labels written with console.error                         *)
(*   escaped whether an exception left the handler                         *)
(***************************************************************************)
Endpoints == {"stream", "info", "search", "trending", "library", "delete"}

Request(ep, filename, url, q, max_results) ==
  [ep |-> ep, filename |-> filename, url |-> url, q |-> q,
   max_results |-> max_results]

NoRequest == Request("none", <<>>, None, None, None)

Idle ==
  [pc |-> "idle", req |-> NoRequest, calls |-> <<>>, res |-> None,
   out |-> <<>>, log |-> <<>>, escaped |-> FALSE]

\* A fetch that is issued a second time.
FetchTwice(r, method, target) ==
  [r EXCEPT !.calls = @ \o <<[method |-> method, url |-> target],
                             [method |-> method, url |-> target]>>,
            !.pc = "fetch"]
\* fetch(url, { method }) up to its await.
Fetch(r, method, target) ==
  [r EXCEPT !.calls = Append(@, [method |-> method, url |-> target]),
            !.pc = "fetch"]

\* A response that is emitted a second time.
ReturnTwice(r, resp) == [r EXCEPT !.out = @ \o <<resp, resp>>, !.pc = "done"]
\* return <response>
Return(r, resp) == [r EXCEPT !.out = Append(@, resp), !.pc = "done"]

\* An exception that no catch block takes.
Rethrow(r, label, message) ==
  [r EXCEPT !.log = Append(@, label), !.escaped = TRUE, !.pc = "done"]

\* catch (error) { console.error(label, error);
\*                 return NextResponse.json({ error: message }, { status: 500 }) }
Catch(r, label, message) ==
  Return([r EXCEPT !.log = Append(@, label)],
         NextResponseJson(ErrorBody(JStr(message)), 500))

Threw(r) == Get(r.res).threw
Status(r) == Get(r.res).status
ResponseBody(r) == Get(r.res).body

\* ---- GET /api/stream/[filename] ----------------------------------------
StreamTarget(filename) ==
  BACKEND_URL \o <<"/", "api", "/", "stream", "/">> \o encodeURIComponent(filename)

StreamParams(r) == Fetch(r, "GET", StreamTarget(r.req.filename))

\* The not-found answer with the backend's status kept.
StreamNotOkPreserving(r) ==
  Return(r, NextResponseJson(ErrorBody(JStr("Video not found")), Status(r)))
\* if (!response.ok) return 404
StreamNotOk(r) ==
  Return(r, NextResponseJson(ErrorBody(JStr("Video not found")), 404))

\* The backend's headers passed on as they came, and no Accept-Ranges.
StreamOkNoRanges(r) ==
  Return(r, StreamResponse(ResponseBody(r).raw, 200,
                           Get(r.res).contentType, Get(r.res).contentLength, None))
\* The success path: headers rebuilt, body passed on.
StreamOk(r) ==
  LET contentType == IF Falsy(Get(r.res).contentType)
                     THEN <<"video/mp4">> ELSE Get(Get(r.res).contentType)
      contentLength == Get(r.res).contentLength
  IN Return(r, StreamResponse(ResponseBody(r).raw, 200,
                              Some(contentType),
                              IF Falsy(contentLength) THEN None ELSE contentLength,
                              Some(<<"bytes">>)))

StreamAfterFetch(r) ==
  IF Threw(r) THEN Catch(r, "Stream API error:", "Failed to stream video")
  ELSE IF ~Ok(Status(r)) THEN StreamNotOk(r)
  ELSE StreamOk(r)

\* ---- GET /api/video/info ------------------------------------------------
InfoTarget(url) ==
  BACKEND_URL \o <<"/", "api", "/", "video", "/", "info", "?", "url", "=">>
              \o encodeURIComponent(url)

InfoEntry(r) ==
  IF Falsy(r.req.url)
  THEN Return(r, NextResponseJson(ErrorBody(JStr("URL parameter is required")), 400))
  ELSE Fetch(r, "GET", InfoTarget(Get(r.req.url)))

InfoCatch(r) == Catch(r, "Video info API error:", "Failed to get video information")

InfoAfterFetch(r) ==
  IF Threw(r) THEN InfoCatch(r) ELSE [r EXCEPT !.pc = "json"]

\* The error answer with a fixed status and message.
InfoNotOkFixed(r) ==
  Return(r, NextResponseJson(ErrorBody(JStr("Failed to get video info")), 404))
\* if (!response.ok) { ... }
InfoNotOk(r) ==
  LET errorData == IF IsJsonText(ResponseBody(r))
                   THEN JSONparse(Get(ResponseBody(r).doc))
                   ELSE JObj(<<Member("detail", JStr("Unknown error"))>>)
  IN IF DetailThrows(errorData) THEN InfoCatch(r)
     ELSE LET detail == Detail(errorData)
              error == IF Truthy(detail) THEN Get(detail)
                       ELSE JStr("Failed to get video info")
          IN IF ResponseInitThrows(Status(r)) THEN InfoCatch(r)
             ELSE Return(r, NextResponseJson(ErrorBody(error), Status(r)))

\* The success answer with the backend's status kept.
InfoOkPreserving(r) ==
  IF ~IsJsonText(ResponseBody(r)) THEN InfoCatch(r)
  ELSE Return(r, NextResponseJson(JSONparse(Get(ResponseBody(r).doc)), Status(r)))
\* const data = await response.json(); return NextResponse.json(data)
InfoOk(r) ==
  IF ~IsJsonText(ResponseBody(r)) THEN InfoCatch(r)
  ELSE Return(r, NextResponseJson(JSONparse(Get(ResponseBody(r).doc)), 200))

InfoAfterJson(r) == IF ~Ok(Status(r)) THEN InfoNotOk(r) ELSE InfoOk(r)

\* ---- GET /api/search ----------------------------------------------------
SearchTarget(q, maxResults) ==
  BACKEND_URL \o <<"/", "api", "/", "search", "?", "q", "=">>
              \o encodeURIComponent(q)
              \o <<"&", "max_results", "=">> \o maxResults

SearchEntry(r) ==
  LET maxResults == IF Falsy(r.req.max_results)
                    THEN <<"2", "0">> ELSE Get(r.req.max_results)
  IN IF Falsy(r.req.q)
     THEN Return(r, NextResponseJson(
                      ErrorBody(JStr("Query parameter \"q\" is required")), 400))
     ELSE Fetch(r, "GET", SearchTarget(Get(r.req.q), maxResults))

SearchCatch(r) == Catch(r, "Search API error:", "Failed to search videos")

SearchAfterFetch(r) ==
  IF Threw(r) THEN SearchCatch(r) ELSE [r EXCEPT !.pc = "json"]

SearchAfterJson(r) ==
  IF ~IsJsonText(ResponseBody(r)) THEN SearchCatch(r)
  ELSE Return(r, NextResponseJson(JSONparse(Get(ResponseBody(r).doc)), 200))

\* ---- GET /api/trending --------------------------------------------------
TrendingTarget == BACKEND_URL \o <<"/", "api", "/", "trending">>

TrendingEntry(r) == Fetch(r, "GET", TrendingTarget)

TrendingCatch(r) ==
  Catch(r, "Trending API error:", "Failed to get trending videos")

TrendingAfterFetch(r) ==
  IF Threw(r) THEN TrendingCatch(r) ELSE [r EXCEPT !.pc = "json"]

TrendingAfterJson(r) ==
  IF ~IsJsonText(ResponseBody(r)) THEN TrendingCatch(r)
  ELSE Return(r, NextResponseJson(JSONparse(Get(ResponseBody(r).doc)), 200))

\* ---- GET /api/library ---------------------------------------------------
LibraryTarget == BACKEND_URL \o <<"/", "api", "/", "library">>

LibraryEntry(r) == Fetch(r, "GET", LibraryTarget)

LibraryCatch(r) == Catch(r, "Library API error:", "Failed to get library")

LibraryAfterFetch(r) ==
  IF Threw(r) THEN LibraryCatch(r) ELSE [r EXCEPT !.pc = "json"]

LibraryAfterJson(r) ==
  IF ~IsJsonText(ResponseBody(r)) THEN LibraryCatch(r)
  ELSE Return(r, NextResponseJson(JSONparse(Get(ResponseBody(r).doc)), 200))

\* ---- DELETE /api/library/[filename] -------------------------------------
DeleteTarget(filename) ==
  BACKEND_URL \o <<"/", "api", "/", "library", "/">> \o encodeURIComponent(filename)

DeleteParams(r) == Fetch(r, "DELETE", DeleteTarget(r.req.filename))

DeleteCatch(r) == Catch(r, "Delete video API error:", "Failed to delete video")

DeleteAfterFetch(r) ==
  IF Threw(r) THEN DeleteCatch(r) ELSE [r EXCEPT !.pc = "json"]

DeleteAfterJson(r) ==
  IF ~IsJsonText(ResponseBody(r)) THEN DeleteCatch(r)
  ELSE Return(r, NextResponseJson(JSONparse(Get(ResponseBody(r).doc)), 200))

(***************************************************************************)
(* The inbound requests and the backend's answers the model draws from.    *)
(***************************************************************************)
OptStrs == {None} \cup {Some(str) : str \in Strs}

Requests ==
  {Request("stream", f, None, None, None) : f \in NonEmptyStrs}
  \cup {Request("delete", f, None, None, None) : f \in NonEmptyStrs}
  \cup {Request("info", <<>>, u, None, None) : u \in OptStrs}
  \cup {Request("search", <<>>, None, q, n) : q \in OptStrs, n \in OptStrs}
  \cup {Request("trending", <<>>, None, None, None),
        Request("library", <<>>, None, None, None)}

Rejected ==
  [threw |-> TRUE, status |-> 0, contentType |-> None, contentLength |-> None,
   body |-> Body("", None)]

BackendResponse(status, contentType, contentLength, body) ==
  [threw |-> FALSE, status |-> status, contentType |-> contentType,
   contentLength |-> contentLength, body |-> body]

Statuses == {200, 206, 404, 422, 500}

StreamBodies == {Body("mp4 bytes", None), Body("webm bytes", None)}

Documents ==
  {JNull,
   JStr("ok"),
   JObj(<<>>),
   JObj(<<Member("detail", JStr("invalid url"))>>),
   JObj(<<Member("detail", JStr(""))>>),
   JObj(<<Member("title", JStr("t")), Member("views", JNum("5"))>>),
   JObj(<<Member("id", JStr("a")), Member("id", JStr("b"))>>),
   JObj(<<Member("size", JNum("9007199254740993"))>>)}

JsonBodies ==
  {Body("<html>", None)} \cup {Body("json", Some(d)) : d \in Documents}

StreamResponses ==
  {BackendResponse(s, ct, cl, b) :
     s \in Statuses,
     ct \in {None, Some(<<>>), Some(<<"video/webm">>)},
     cl \in {None, Some(<<"1024">>)},
     b \in StreamBodies}

JsonResponses ==
  {BackendResponse(s, Some(<<"application/json">>), None, b) :
     s \in Statuses, b \in JsonBodies}

Responses == [ep \in Endpoints |->
                IF ep = "stream" THEN StreamResponses ELSE JsonResponses]

\* A few of each, for the interleavings of two invocations.
FewRequests ==
  {Request("stream", <<"t">>, None, None, None),
   Request("delete", <<"t">>, None, None, None),
   Request("info", <<>>, None, None, None),
   Request("info", <<>>, Some(<<"t">>), None, None),
   Request("search", <<>>, None, Some(<<>>), None),
   Request("search", <<>>, None, Some(<<"t">>), Some(<<"5">>)),
   Request("trending", <<>>, None, None, None),
   Request("library", <<>>, None, None, None)}

FewResponses == [ep \in Endpoints |->
  IF ep = "stream"
  THEN {BackendResponse(200, Some(<<"video/webm">>), Some(<<"1024">>),
                        Body("webm bytes", None)),
        BackendResponse(500, None, None, Body("mp4 bytes", None))}
  ELSE {BackendResponse(200, Some(<<"application/json">>), None,
                        Body("json", Some(JObj(<<Member("title", JStr("t"))>>)))),
        BackendResponse(422, Some(<<"application/json">>), None,
                        Body("json", Some(JObj(<<Member("detail", JStr("invalid url"))>>)))),
        BackendResponse(500, Some(<<"application/json">>), None,
                        Body("<html>", None))}]

(***************************************************************************)
(* The state machine.                                                      *)
(***************************************************************************)
VARIABLES inv

vars == <<inv>>

Invocations == {1, 2}
Sequential == {1}

Init == inv = [i \in Invocations |-> Idle]

Step(i, r) == inv' = [inv EXCEPT ![i] = r]

\* The platform calls the handler of the route the request matches.
Invoke(i, reqs) ==
  /\ inv[i].pc = "idle"
  /\ \E req \in reqs : Step(i, [inv[i] EXCEPT !.req = req, !.pc = "entry"])

\* The handler runs to its first await.
EnterOf(r) ==
  CASE r.req.ep = "info" -> InfoEntry(r)
    [] r.req.ep = "search" -> SearchEntry(r)
    [] r.req.ep = "trending" -> TrendingEntry(r)
    [] r.req.ep = "library" -> LibraryEntry(r)
    [] r.req.ep \in {"stream", "delete"} -> [r EXCEPT !.pc = "params"]

Enter(i) ==
  /\ inv[i].pc = "entry"
  /\ Step(i, EnterOf(inv[i]))

\* `await params` resumes.
ParamsResolve(i) ==
  /\ inv[i].pc = "params"
  /\ Step(i, IF inv[i].req.ep = "stream" THEN StreamParams(inv[i])
             ELSE DeleteParams(inv[i]))

\* The outbound call fails: network failure, connection refused.
FetchRejects(i) ==
  /\ inv[i].pc = "fetch"
  /\ Step(i, [inv[i] EXCEPT !.res = Some(Rejected), !.pc = "fetched"])

\* The backend answers.
FetchResolves(i, resps) ==
  /\ inv[i].pc = "fetch"
  /\ \E res \in resps[inv[i].req.ep] :
       Step(i, [inv[i] EXCEPT !.res = Some(res), !.pc = "fetched"])

\* `await fetch(...)` resumes, up to the next await or the return.
AfterFetchOf(r) ==
  CASE r.req.ep = "stream" -> StreamAfterFetch(r)
    [] r.req.ep = "info" -> InfoAfterFetch(r)
    [] r.req.ep = "search" -> SearchAfterFetch(r)
    [] r.req.ep = "trending" -> TrendingAfterFetch(r)
    [] r.req.ep = "library" -> LibraryAfterFetch(r)
    [] r.req.ep = "delete" -> DeleteAfterFetch(r)

AfterFetch(i) ==
  /\ inv[i].pc = "fetched"
  /\ Step(i, AfterFetchOf(inv[i]))

\* `await response.json()` settles, up to the return.
AfterJsonOf(r) ==
  CASE r.req.ep = "info" -> InfoAfterJson(r)
    [] r.req.ep = "search" -> SearchAfterJson(r)
    [] r.req.ep = "trending" -> TrendingAfterJson(r)
    [] r.req.ep = "library" -> LibraryAfterJson(r)
    [] r.req.ep = "delete" -> DeleteAfterJson(r)

AfterJson(i) ==
  /\ inv[i].pc = "json"
  /\ Step(i, AfterJsonOf(inv[i]))

HandlerStep(i) == Enter(i) \/ ParamsResolve(i) \/ AfterFetch(i) \/ AfterJson(i)
FetchSettles(i, resps) == FetchRejects(i) \/ FetchResolves(i, resps)

\* One invocation, every request and every answer of the sets above.
Next ==
  \E i \in Sequential :
    \/ Invoke(i, Requests)
    \/ Enter(i)
    \/ ParamsResolve(i)
    \/ FetchRejects(i)
    \/ FetchResolves(i, Responses)
    \/ AfterFetch(i)
    \/ AfterJson(i)

Spec == Init /\ [][Next]_vars

\* Two invocations interleaved.  The runtime runs every continuation that
\* is ready, and the outbound call is assumed to settle.
ConcNext ==
  \E i \in Invocations :
    \/ Invoke(i, FewRequests)
    \/ Enter(i)
    \/ ParamsResolve(i)
    \/ FetchRejects(i)
    \/ FetchResolves(i, FewResponses)
    \/ AfterFetch(i)
    \/ AfterJson(i)

ConcSpec ==
  /\ Init
  /\ [][ConcNext]_vars
  /\ \A i \in Invocations :
       /\ WF_vars(HandlerStep(i))
       /\ WF_vars(FetchSettles(i, FewResponses))

(***************************************************************************)
(* Properties.                                                             *)
(***************************************************************************)
Done(i) == inv[i].pc = "done"
Settled(i) == IsSome(inv[i].res)
Answered(i) == Settled(i) /\ ~Get(inv[i].res).threw
BackendStatus(i) == Get(inv[i].res).status
BackendBody(i) == Get(inv[i].res).body
Success(status) == status \in 200..299

\* The required parameter of the request is null or ''.
RequiredMissing(req) ==
  \/ req.ep = "info" /\ (req.url = <<>> \/ req.url = <<<<>>>>)
  \/ req.ep = "search" /\ (req.q = <<>> \/ req.q = <<<<>>>>)

\* The response is JSON { error: <a non-empty string> } and nothing else.
IsErrorEnvelope(resp) ==
  /\ resp.stream = <<>>
  /\ resp.json /= <<>>
  /\ resp.json[1].t = "obj"
  /\ Len(resp.json[1].m) = 1
  /\ resp.json[1].m[1].k = "error"
  /\ resp.json[1].m[1].v.t = "str"
  /\ resp.json[1].m[1].v.s /= ""

\* The response is JSON { error: message } with the given status.
IsError(resp, status, message) ==
  /\ resp.status = status
  /\ resp.stream = <<>>
  /\ resp.json = <<[t |-> "obj", s |-> "",
                    m |-> <<[k |-> "error", v |-> [t |-> "str", s |-> message]]>>]>>

GenericMessage(ep) ==
  CASE ep = "stream" -> "Failed to stream video"
    [] ep = "info" -> "Failed to get video information"
    [] ep = "search" -> "Failed to search videos"
    [] ep = "trending" -> "Failed to get trending videos"
    [] ep = "library" -> "Failed to get library"
    [] ep = "delete" -> "Failed to delete video"

IsGeneric500(i) ==
  /\ Len(inv[i].out) = 1
  /\ IsError(inv[i].out[1], 500, GenericMessage(inv[i].req.ep))

\* C1: an invocation of video info or search whose required parameter is
\* absent or empty never makes an outbound call, and answers 400 with a body
\* { error: <message> }.
C1_MissingParameterFailsFast ==
  \A i \in Invocations :
    (inv[i].pc /= "idle" /\ RequiredMissing(inv[i].req)) =>
      /\ inv[i].calls = <<>>
      /\ inv[i].pc \in {"entry", "done"}
      /\ Done(i) => /\ Len(inv[i].out) = 1
                    /\ inv[i].out[1].status = 400
                    /\ IsErrorEnvelope(inv[i].out[1])

C1_Witness ==
  \E i \in Invocations :
    /\ Done(i)
    /\ inv[i].req.ep = "search"
    /\ inv[i].req.q = <<<<>>>>
    /\ inv[i].calls = <<>>
    /\ inv[i].out[1].status = 400

\* The outbound call threw, or the handler decoded the backend body and the
\* body is no JSON text.
RaisedException(i) ==
  /\ Settled(i)
  /\ \/ Get(inv[i].res).threw
     \/ inv[i].req.ep /= "stream" /\ BackendBody(i).doc = <<>>

\* C2 as stated: on every endpoint, an exception of the outbound call or of
\* the decoding of the backend body ends in 500 with the endpoint's generic
\* message, and in nothing else.
C2_EveryExceptionIs500 ==
  \A i \in Invocations : (Done(i) /\ RaisedException(i)) => IsGeneric500(i)

\* C2 amended: as stated, except for video info on a non-success status,
\* (4xx, 5xx), where an error body that cannot be decoded gives the backend's
\* status with { error: "Unknown error" }.
C2_ExceptionIs500ExceptInfoErrorBody ==
  \A i \in Invocations :
    (Done(i) /\ RaisedException(i)) =>
      IF /\ inv[i].req.ep = "info"
         /\ Answered(i)
         /\ ~Success(BackendStatus(i))
      THEN /\ Len(inv[i].out) = 1
           /\ IsError(inv[i].out[1], BackendStatus(i), "Unknown error")
      ELSE IsGeneric500(i)

C2_Witness ==
  \E i \in Invocations :
    /\ Done(i)
    /\ inv[i].req.ep = "delete"
    /\ Settled(i)
    /\ Get(inv[i].res).threw
    /\ IsGeneric500(i)
    /\ inv[i].log = <<"Delete video API error:">>

\* C3: on every endpoint a non-2xx answer of the backend is passed on as an
\* error: status 404 or the backend's status, never 200, body { error: string }.
C3_NonSuccessIsPropagated ==
  \A i \in Invocations :
    (Done(i) /\ Answered(i) /\ ~Success(BackendStatus(i))) =>
      /\ Len(inv[i].out) = 1
      /\ inv[i].out[1].status \in {404, BackendStatus(i)}
      /\ inv[i].out[1].status /= 200
      /\ IsErrorEnvelope(inv[i].out[1])

\* The value of the member named "detail" of an object document: the last
\* one written, none when the document has no such member.
HasDetail(doc) ==
  doc.t = "obj" /\ \E n \in 1..Len(doc.m) : doc.m[n].k = "detail"
DetailOf(doc) ==
  LET last == CHOOSE n \in 1..Len(doc.m) :
                /\ doc.m[n].k = "detail"
                /\ \A o \in 1..Len(doc.m) : doc.m[o].k = "detail" => o <= n
  IN doc.m[last].v

IsTruthy(v) ==
  ~(v.t = "null" \/ (v.t = "str" /\ v.s = "") \/ (v.t = "num" /\ v.s = "0"))

InfoFailed(i) ==
  /\ Done(i)
  /\ inv[i].req.ep = "info"
  /\ Answered(i)
  /\ ~Success(BackendStatus(i))

\* C4 as stated: video info answers a non-success backend status S with
\* status S and { error: D }, D the "detail" of the backend's JSON body, and
\* with S and { error: "Unknown error" } when that body is no JSON.
C4_InfoPreservesStatusAndDetail ==
  \A i \in Invocations :
    InfoFailed(i) =>
      /\ Len(inv[i].out) = 1
      /\ inv[i].out[1].status = BackendStatus(i)
      /\ BackendBody(i).doc = <<>> =>
           IsError(inv[i].out[1], BackendStatus(i), "Unknown error")
      /\ (BackendBody(i).doc /= <<>> /\ HasDetail(BackendBody(i).doc[1])) =>
           inv[i].out[1].json =
             <<[t |-> "obj", s |-> "",
                m |-> <<[k |-> "error", v |-> DetailOf(BackendBody(i).doc[1])]>>]>>

\* C4 amended: video info answers a non-success backend status S (4xx, 5xx)
\* with status S and { error: E }: E is "Unknown error" when the backend body
\* is no JSON, the body's "detail" when it has one that is truthy, and
\* "Failed to get video info" otherwise.  When the body is the JSON null the
\* answer is 500 with the endpoint's generic message.
C4_InfoPreservesStatusWithFallbacks ==
  \A i \in Invocations :
    InfoFailed(i) =>
      /\ Len(inv[i].out) = 1
      /\ LET S == BackendStatus(i)
             body == BackendBody(i)
             resp == inv[i].out[1]
         IN IF body.doc /= <<>> /\ body.doc[1].t = "null"
            THEN IsGeneric500(i)
            ELSE IF body.doc = <<>>
            THEN IsError(resp, S, "Unknown error")
            ELSE IF HasDetail(body.doc[1]) /\ IsTruthy(DetailOf(body.doc[1]))
            THEN /\ resp.status = S
                 /\ resp.stream = <<>>
                 /\ resp.json =
                      <<[t |-> "obj", s |-> "",
                         m |-> <<[k |-> "error", v |-> DetailOf(body.doc[1])]>>]>>
            ELSE IsError(resp, S, "Failed to get video info")

C4_Witness ==
  \E i \in Invocations :
    /\ InfoFailed(i)
    /\ BackendStatus(i) = 422
    /\ BackendBody(i).doc /= <<>>
    /\ HasDetail(BackendBody(i).doc[1])
    /\ IsError(inv[i].out[1], 422, "invalid url")

StreamFailed(i) ==
  /\ Done(i)
  /\ inv[i].req.ep = "stream"
  /\ Answered(i)
  /\ ~Success(BackendStatus(i))

\* C5: the streaming endpoint answers every non-success backend status with
\* exactly { "error": "Video not found" } and status 404.
C5_StreamFailureIs404 ==
  \A i \in Invocations :
    StreamFailed(i) =>
      /\ Len(inv[i].out) = 1
      /\ IsError(inv[i].out[1], 404, "Video not found")

C5_Witness ==
  \E i \in Invocations :
    /\ StreamFailed(i)
    /\ BackendStatus(i) = 500
    /\ inv[i].out[1].status = 404

StreamSucceeded(i) ==
  /\ Done(i)
  /\ inv[i].req.ep = "stream"
  /\ Answered(i)
  /\ Success(BackendStatus(i))

\* A header the backend sent with a value.
Sent(header) == header /= <<>> /\ header[1] /= <<>>

\* C6: the streaming endpoint answers a successful backend response with
\* status 200, the backend's content-type ('video/mp4' when the backend sent
\* none), the backend's content-length when it sent one and none otherwise,
\* 'Accept-Ranges: bytes', and the backend's body unchanged.
C6_StreamSuccessForwards ==
  \A i \in Invocations :
    StreamSucceeded(i) =>
      /\ Len(inv[i].out) = 1
      /\ LET res == Get(inv[i].res)
             resp == inv[i].out[1]
         IN /\ resp.status = 200
            /\ resp.contentType =
                 IF Sent(res.contentType) THEN res.contentType ELSE <<<<"video/mp4">>>>
            /\ resp.contentLength =
                 IF Sent(res.contentLength) THEN res.contentLength ELSE <<>>
            /\ resp.acceptRanges = <<<<"bytes">>>>
            /\ resp.stream = <<res.body.raw>>
            /\ resp.json = <<>>

C6_Witness ==
  \E i \in Invocations :
    /\ StreamSucceeded(i)
    /\ Get(inv[i].res).contentType = <<<<"video/webm">>>>
    /\ Get(inv[i].res).contentLength = <<<<"1024">>>>
    /\ inv[i].out[1].contentType = <<<<"video/webm">>>>
    /\ inv[i].out[1].contentLength = <<<<"1024">>>>
    /\ inv[i].out[1].stream = <<"webm bytes">>

JsonSucceeded(i) ==
  /\ Done(i)
  /\ inv[i].req.ep \in {"info", "search", "trending", "library", "delete"}
  /\ Answered(i)
  /\ Success(BackendStatus(i))
  /\ BackendBody(i).doc /= <<>>

\* C7 as stated: a JSON endpoint answers a successful backend response whose
\* body is the document D with status 200 and body exactly D.
C7_JsonBodyIsExactlyD ==
  \A i \in Invocations :
    JsonSucceeded(i) =>
      /\ Len(inv[i].out) = 1
      /\ inv[i].out[1].status = 200
      /\ inv[i].out[1].json = BackendBody(i).doc

\* No member name is written twice and every number is one a double holds.
Names(doc) == {doc.m[n].k : n \in 1..Len(doc.m)}
SafeNumbers == {"0", "5", "20", "1024", "9007199254740992"}
SurvivesDecoding(doc) ==
  /\ \A n, o \in 1..Len(doc.m) : doc.m[n].k = doc.m[o].k => n = o
  /\ \A n \in 1..Len(doc.m) : doc.m[n].v.t = "num" => doc.m[n].v.s \in SafeNumbers
  /\ doc.t = "num" => doc.s \in SafeNumbers

\* C7 amended: a JSON endpoint answers a successful backend response whose
\* body is the document D with status 200 and the re-encoding of the decoded
\* D: the member names of D and no other, and exactly D when D writes no
\* member name twice and every number of D is exactly a double.
C7_JsonBodyIsReencodedD ==
  \A i \in Invocations :
    JsonSucceeded(i) =>
      /\ Len(inv[i].out) = 1
      /\ inv[i].out[1].status = 200
      /\ inv[i].out[1].stream = <<>>
      /\ inv[i].out[1].json /= <<>>
      /\ inv[i].out[1].json[1].t = BackendBody(i).doc[1].t
      /\ Names(inv[i].out[1].json[1]) = Names(BackendBody(i).doc[1])
      /\ SurvivesDecoding(BackendBody(i).doc[1]) =>
           inv[i].out[1].json = BackendBody(i).doc

C7_Witness ==
  \E i \in Invocations :
    /\ JsonSucceeded(i)
    /\ inv[i].req.ep = "library"
    /\ BackendStatus(i) = 206
    /\ Len(BackendBody(i).doc[1].m) = 2
    /\ SurvivesDecoding(BackendBody(i).doc[1])
    /\ inv[i].out[1].status = 200
    /\ inv[i].out[1].json = BackendBody(i).doc

\* C8: an invocation that passes validation makes exactly one outbound call,
\* and no invocation makes a second one, whatever the first one came to.
C8_ExactlyOneOutboundCall ==
  \A i \in Invocations :
    /\ Len(inv[i].calls) <= 1
    /\ inv[i].pc \in {"fetch", "fetched", "json"} => Len(inv[i].calls) = 1
    /\ (Done(i) /\ ~RequiredMissing(inv[i].req)) => Len(inv[i].calls) = 1
    /\ (Done(i) /\ RequiredMissing(inv[i].req)) => Len(inv[i].calls) = 0

C8_Witness ==
  \E i \in Invocations :
    /\ Done(i)
    /\ Settled(i)
    /\ Get(inv[i].res).threw
    /\ Len(inv[i].calls) = 1
    /\ inv[i].out[1].status = 500

\* The URL the claim gives for a request: origin, path, and every parameter
\* value percent-encoded.
EncodedTarget(req) ==
  CASE req.ep = "stream" ->
         <<"http://localhost:8001", "/", "api", "/", "stream", "/">>
           \o encodeURIComponent(req.filename)
    [] req.ep = "delete" ->
         <<"http://localhost:8001", "/", "api", "/", "library", "/">>
           \o encodeURIComponent(req.filename)
    [] req.ep = "info" ->
         <<"http://localhost:8001", "/", "api", "/", "video", "/", "info", "?", "url", "=">>
           \o encodeURIComponent(req.url[1])
    [] req.ep = "search" ->
         <<"http://localhost:8001", "/", "api", "/", "search", "?", "q", "=">>
           \o encodeURIComponent(req.q[1])
           \o <<"&", "max_results", "=">>
           \o encodeURIComponent(IF req.max_results = <<>> \/ req.max_results = <<<<>>>>
                                 THEN <<"2", "0">> ELSE req.max_results[1])
    [] req.ep = "trending" -> <<"http://localhost:8001", "/", "api", "/", "trending">>
    [] req.ep = "library" -> <<"http://localhost:8001", "/", "api", "/", "library">>

Count(url, token) == Cardinality({n \in 1..Len(url) : url[n] = token})

\* C9: every outbound URL is the origin, the endpoint's path and the
\* percent-encoded parameter values, so that a parameter value adds no query
\* parameter and no path segment: search calls
\* /api/search?q=enc(Q)&max_results=enc(N), two parameters and three segments.
C9_OutboundUrlIsEncoded ==
  \A i \in Invocations :
    \A n \in 1..Len(inv[i].calls) :
      /\ inv[i].calls[n].url = EncodedTarget(inv[i].req)
      /\ inv[i].req.ep = "search" =>
           /\ Count(inv[i].calls[n].url, "&") = 1
           /\ Count(inv[i].calls[n].url, "/") = 2

\* The status an invocation answers with, from its own request and its own
\* backend result alone.
ExpectedStatus(req, res) ==
  IF RequiredMissing(req) THEN 400
  ELSE IF res[1].threw THEN 500
  ELSE IF req.ep = "stream" THEN (IF Success(res[1].status) THEN 200 ELSE 404)
  ELSE IF req.ep = "info" /\ ~Success(res[1].status)
  THEN (IF res[1].body.doc /= <<>> /\ res[1].body.doc[1].t = "null"
        THEN 500 ELSE res[1].status)
  ELSE IF res[1].body.doc = <<>> THEN 500 ELSE 200

Rank(pc) ==
  CASE pc = "idle" -> 0
    [] pc = "entry" -> 1
    [] pc = "params" -> 2
    [] pc = "fetch" -> 3
    [] pc = "fetched" -> 4
    [] pc = "json" -> 5
    [] pc = "done" -> 6

\* No invocation answers twice or lets an exception out; one that is done
\* has answered once, with the status its own request and backend result
\* give; one that took the failure branch has answered 500; two invocations
\* with the same request and backend result have answered the same.
C10_Safety ==
  /\ \A i \in Invocations :
       /\ Len(inv[i].out) <= 1
       /\ ~inv[i].escaped
       /\ ~Done(i) => inv[i].out = <<>>
       /\ Done(i) => /\ Len(inv[i].out) = 1
                     /\ inv[i].out[1].status = ExpectedStatus(inv[i].req, inv[i].res)
       /\ inv[i].log /= <<>> => Done(i) /\ IsGeneric500(i)
       /\ (Settled(i) /\ Get(inv[i].res).threw /\ Done(i)) => inv[i].log /= <<>>
  /\ \A i, j \in Invocations :
       (Done(i) /\ Done(j) /\ inv[i].req = inv[j].req /\ inv[i].res = inv[j].res)
         => inv[i].out = inv[j].out

\* A step moves one invocation, forward, and leaves its request, and once
\* set its backend result and its response, as they are.
C10_Linear ==
  \A i \in Invocations :
    \/ inv'[i] = inv[i]
    \/ /\ Rank(inv'[i].pc) > Rank(inv[i].pc)
       /\ \A j \in Invocations \ {i} : inv'[j] = inv[j]
       /\ inv[i].pc /= "idle" => inv'[i].req = inv[i].req
       /\ inv[i].res /= <<>> => inv'[i].res = inv[i].res

\* C10: an invocation runs validate, call, translate, respond in that order
\* and, when the outbound call settles, ends with exactly one response; no
\* failure leaves the handler, the failure branch never answers with a
\* success, and under every interleaving an invocation's response depends on
\* its own request and backend result only.
C10_LinearSingleResponse ==
  /\ []C10_Safety
  /\ [][C10_Linear]_vars
  /\ \A i \in Invocations :
       (inv[i].pc = "entry") ~> (Done(i) /\ Len(inv[i].out) = 1)

C10_Witness ==
  \E i, j \in Invocations :
    /\ i /= j
    /\ Done(i) /\ Done(j)
    /\ inv[i].log /= <<>> /\ inv[i].out[1].status = 500
    /\ inv[j].log = <<>> /\ inv[j].out[1].status = 200
    /\ inv[i].req.ep = inv[j].req.ep
====
